---- MODULE Spec2Model ----
(***************************************************************************)
(* Identity reconciliation service: the contact store (prisma model        *)
(* Contact) and IdentityLinkingService.identifyContact ("Resolve") with    *)
(* the repository and search-service queries it is built from.             *)
(***************************************************************************)
EXTENDS Integers, Sequences, FiniteSets, TLC

\* ------------------------------------------------------------------ bounds
MaxContacts == 4    \* rows the store may hold
MaxTime == 2        \* distinct clock readings (millisecond timestamps)
NumEmails == 2      \* distinct normalized e-mail addresses
NumPhones == 2      \* distinct normalized phone numbers
NumProcs == 2       \* identifyContact calls that may be in flight together
MaxDeleted == 1     \* rows that may be soft-deleted
MaxCalls == 4       \* calls begun in a run of interleaved calls

\* ------------------------------------------------------------- vocabulary
NULL == 0
Emails == 1..NumEmails
Phones == 1..NumPhones

\* Raw request values: <<"norm", i>> is value i already in normal form,
\* <<"mixed", i>> is value i with surrounding blanks and upper-case letters
\* (e-mail) or with the separators "-", " ", "(", ")", "." (phone);
\* "undef" is an absent field, "empty" is "", "blank" is "   ".  Requests
\* are well formed: a string the format regex rejects is not among them.
RawEmails ==
  ({"norm", "mixed"} \X Emails) \cup {<<"undef", 0>>, <<"empty", 0>>, <<"blank", 0>>}
RawPhones ==
  ({"norm", "mixed"} \X Phones) \cup {<<"undef", 0>>, <<"empty", 0>>, <<"blank", 0>>}

\* validateEmail: absent/empty/blank -> null; otherwise trim + lower-case.
validateEmail(raw) ==
  IF raw[1] \in {"undef", "empty", "blank"} THEN NULL ELSE raw[2]

\* validatePhoneNumber: absent/empty/blank -> null; otherwise the
\* separators are stripped.
validatePhoneNumber(raw) ==
  IF raw[1] \in {"undef", "empty", "blank"} THEN NULL ELSE raw[2]

\* ------------------------------------------------------------------ state
VARIABLES
  contacts,   \* the contacts table: contacts[id] is the row with that id
  now,        \* the clock that stamps createdAt / updatedAt
  last,       \* the most recent identifyContact call: input, outcome, store before
  calls,      \* calls[p]: the identifyContact call in flight on request slot p
  response,   \* the ConsolidatedContact handed to formatContactResponse and what it made of it
  limiter,    \* the rateLimiter middleware: NODE_ENV, Date.now(), requestCounts, what it answered
  consolidation, \* the most recent ContactConsolidationService.consolidatePrimaryContacts call
  detection   \* the list handed to EdgeCaseHandler.detectCircularReferences and its outcome

vars == <<contacts, now, last, calls, response, limiter, consolidation, detection>>

\* The variables of the parts a step of the contact store leaves alone.
others == <<limiter, consolidation, detection>>

\* One row of the contacts table.
Contact(id, email, phoneNumber, linkedId, linkPrecedence, t) ==
  [id |-> id, email |-> email, phoneNumber |-> phoneNumber,
   linkedId |-> linkedId, linkPrecedence |-> linkPrecedence,
   createdAt |-> t, updatedAt |-> t, deletedAt |-> NULL]

Ids(cs) == 1..Len(cs)

\* ---------------------------------------------------------------- queries
Min(S) == CHOOSE x \in S : \A y \in S : x <= y

\* The order in which the database hands back rows that the ORDER BY does
\* not distinguish is not specified; "asc"/"desc" are the two id orders.
TieOrders == {"asc", "desc"}
RowOrder(cs, tb) ==
  [k \in 1..Len(cs) |-> IF tb = "asc" THEN k ELSE Len(cs) + 1 - k]

Range(s) == {s[i] : i \in 1..Len(s)}

\* list.sort((a, b) => a.createdAt.getTime() - b.createdAt.getTime()):
\* ascending createdAt, and Array.prototype.sort is stable, so rows of one
\* createdAt keep the order they had.  from is the least timestamp left.
RECURSIVE sortFrom(_, _, _)
sortFrom(cs, s, from) ==
  IF s = <<>> \/ from > MaxTime THEN <<>>
  ELSE SelectSeq(s, LAMBDA x : cs[x].createdAt = from) \o sortFrom(cs, s, from + 1)

sortByCreatedAt(cs, s) == IF Len(s) <= 1 THEN s ELSE sortFrom(cs, s, 1)

\* s.filter(pred) for a sequence of ids
FilterSeq(s, keep) == SelectSeq(s, LAMBDA x : x \in keep)

\* Variant of findByEmailOrPhone with includeDeleted set: the deletedAt
\* filter is dropped.
findByEmailOrPhone_IncludeDeleted(cs, email, phoneNumber, tb) ==
  LET hit(c) == \/ (email = NULL /\ phoneNumber = NULL)
                \/ (email # NULL /\ c.email = email)
                \/ (phoneNumber # NULL /\ c.phoneNumber = phoneNumber)
  IN sortByCreatedAt(cs, SelectSeq(RowOrder(cs, tb), LAMBDA i : hit(cs[i])))

\* ContactRepository.findByEmailOrPhone (includeDeleted is never set)
findByEmailOrPhone(cs, email, phoneNumber, tb) ==
  LET hit(c) == /\ c.deletedAt = NULL
                /\ \/ (email = NULL /\ phoneNumber = NULL)
                   \/ (email # NULL /\ c.email = email)
                   \/ (phoneNumber # NULL /\ c.phoneNumber = phoneNumber)
  IN sortByCreatedAt(cs, SelectSeq(RowOrder(cs, tb), LAMBDA i : hit(cs[i])))

\* Variant of findLinkedContacts without the deletedAt filter.
findLinkedContacts_IncludeDeleted(cs, primaryContactId, tb) ==
  LET hit(c) == c.id = primaryContactId \/ c.linkedId = primaryContactId
  IN sortByCreatedAt(cs, SelectSeq(RowOrder(cs, tb), LAMBDA i : hit(cs[i])))

\* ContactRepository.findLinkedContacts
findLinkedContacts(cs, primaryContactId, tb) ==
  LET hit(c) == /\ c.deletedAt = NULL
                /\ (c.id = primaryContactId \/ c.linkedId = primaryContactId)
  IN sortByCreatedAt(cs, SelectSeq(RowOrder(cs, tb), LAMBDA i : hit(cs[i])))

\* ContactRepository.findPrimaryContact: recursion along linkedId.  A walk
\* longer than the table has revisited a row and never returns (DIVERGE).
DIVERGE == -2
NOLINK == -1
RECURSIVE findPrimaryFrom(_, _, _)
findPrimaryFrom(cs, contactId, fuel) ==
  IF contactId \notin Ids(cs) \/ cs[contactId].deletedAt # NULL THEN NULL
  ELSE IF cs[contactId].linkPrecedence = "primary" THEN contactId
  ELSE IF cs[contactId].linkedId # NULL
       THEN (IF fuel = 0 THEN DIVERGE
             ELSE findPrimaryFrom(cs, cs[contactId].linkedId, fuel - 1))
  ELSE NULL

findPrimaryContact(cs, contactId) == findPrimaryFrom(cs, contactId, Len(cs))

\* Variant of findExactMatch in which a field matches only when both sides
\* are non-null and equal, so a pair with a null field is never found.
findExactMatch_NonNullOnly(cs, email, phoneNumber) ==
  IF email = NULL /\ phoneNumber = NULL THEN {}
  ELSE {i \in Ids(cs) : /\ email # NULL /\ cs[i].email = email
                        /\ phoneNumber # NULL /\ cs[i].phoneNumber = phoneNumber
                        /\ cs[i].deletedAt = NULL}

\* ContactRepository.findExactMatch: findFirst without ORDER BY, so any of
\* the matching rows may be the one returned; the set of candidates.
findExactMatch(cs, email, phoneNumber) ==
  IF email = NULL /\ phoneNumber = NULL THEN {}
  ELSE {i \in Ids(cs) : /\ cs[i].email = email
                        /\ cs[i].phoneNumber = phoneNumber
                        /\ cs[i].deletedAt = NULL}

\* ContactSearchService.findExactContactMatch
findExactContactMatch(cs, email, phoneNumber) ==
  IF email = NULL /\ phoneNumber = NULL THEN {}
  ELSE findExactMatch(cs, email, phoneNumber)

\* ContactSearchService.findPartialMatches
findPartialMatches(cs, email, phoneNumber, tb) ==
  LET emailMatches == IF email # NULL THEN findByEmailOrPhone(cs, email, NULL, tb) ELSE <<>>
      phoneMatches == IF phoneNumber # NULL THEN findByEmailOrPhone(cs, NULL, phoneNumber, tb) ELSE <<>>
  IN [emailMatches |-> emailMatches, phoneMatches |-> phoneMatches,
      hasEmailMatch |-> Len(emailMatches) > 0, hasPhoneMatch |-> Len(phoneMatches) > 0]

\* Map.set keeps the position of a key that is already present.
MapSet(order, id) == IF id \in Range(order) THEN order ELSE Append(order, id)

RECURSIVE MapSetAll(_, _)
MapSetAll(order, ids) ==
  IF ids = <<>> THEN order ELSE MapSetAll(MapSet(order, ids[1]), Tail(ids))

\* The loop of findAllRelatedContacts: order is the Map's insertion order.
RECURSIVE relatedLoop(_, _, _, _)
relatedLoop(cs, matched, order, tb) ==
  IF matched = <<>> THEN [hang |-> FALSE, ids |-> order]
  ELSE LET c == cs[matched[1]]
           p == IF c.linkPrecedence = "primary" THEN c.id
                ELSE IF c.linkedId # NULL THEN findPrimaryContact(cs, c.linkedId)
                ELSE NULL
       IN IF p = DIVERGE THEN [hang |-> TRUE, ids |-> order]
          ELSE IF p = NULL THEN relatedLoop(cs, Tail(matched), order, tb)
          ELSE relatedLoop(cs, Tail(matched),
                           MapSetAll(MapSet(order, p), findLinkedContacts(cs, p, tb)), tb)

\* ContactSearchService.findAllRelatedContacts
findAllRelatedContacts(cs, matched, tb) ==
  IF Len(matched) = 0 THEN [hang |-> FALSE, ids |-> <<>>]
  ELSE LET r == relatedLoop(cs, matched, <<>>, tb)
       IN [hang |-> r.hang, ids |-> sortByCreatedAt(cs, r.ids)]

PrimariesOf(cs, ids) ==
  FilterSeq(ids, {i \in Ids(cs) : cs[i].linkPrecedence = "primary"})

\* --------------------------------------------------------------- outcomes
\* What a call hands back: a ConsolidatedContact ("ok"), a rejection
\* ("error") or nothing at all ("hang": the primary lookup never returns).
Ok(primaryId, secondaryIds, emails, phones) ==
  [status |-> "ok", error |-> "", primaryId |-> primaryId,
   secondaryIds |-> secondaryIds, allEmails |-> emails, allPhoneNumbers |-> phones]
Err(msg) ==
  [status |-> "error", error |-> msg, primaryId |-> NULL,
   secondaryIds |-> <<>>, allEmails |-> <<>>, allPhoneNumbers |-> <<>>]
Hang ==
  [status |-> "hang", error |-> "", primaryId |-> NULL,
   secondaryIds |-> <<>>, allEmails |-> <<>>, allPhoneNumbers |-> <<>>]

\* No answer yet.
NoResult ==
  [status |-> "none", error |-> "", primaryId |-> NULL,
   secondaryIds |-> <<>>, allEmails |-> <<>>, allPhoneNumbers |-> <<>>]

RECURSIVE collect_NoDedup(_, _, _, _)
RECURSIVE collect(_, _, _, _)
\* Variant of collect without the includes test: every non-null value of a
\* secondary is pushed.
collect_NoDedup(cs, acc, ids, field) ==
  IF ids = <<>> THEN acc
  ELSE LET v == IF field = "email" THEN cs[ids[1]].email ELSE cs[ids[1]].phoneNumber
       IN collect_NoDedup(cs, IF v # NULL THEN Append(acc, v) ELSE acc, Tail(ids), field)

\* allX.push(v) guarded by v && !allX.includes(v), over the secondaries
collect(cs, acc, ids, field) ==
  IF ids = <<>> THEN acc
  ELSE LET v == IF field = "email" THEN cs[ids[1]].email ELSE cs[ids[1]].phoneNumber
       IN collect(cs, IF v # NULL /\ v \notin Range(acc) THEN Append(acc, v) ELSE acc,
                  Tail(ids), field)

\* IdentityLinkingService.getConsolidatedContact; contact is the row object
\* the caller holds.
getConsolidatedContact(cs, contact, tb) ==
  LET found == IF contact.linkPrecedence = "primary" THEN contact.id
               ELSE IF contact.linkedId # NULL THEN findPrimaryContact(cs, contact.linkedId)
               ELSE NOLINK
  IN IF found = DIVERGE THEN Hang
     ELSE IF found = NULL THEN Err("Primary contact not found for secondary contact")
     ELSE IF found = NOLINK THEN Err("Invalid contact state: secondary contact without linkedId")
     ELSE LET primaryContact == IF contact.linkPrecedence = "primary" THEN contact ELSE cs[found]
              allLinkedContacts == findLinkedContacts(cs, primaryContact.id, tb)
              secondaryContacts ==
                sortByCreatedAt(cs, FilterSeq(allLinkedContacts,
                                   {i \in Ids(cs) : cs[i].linkPrecedence = "secondary"}))
              emails0 == IF primaryContact.email # NULL THEN <<primaryContact.email>> ELSE <<>>
              phones0 == IF primaryContact.phoneNumber # NULL THEN <<primaryContact.phoneNumber>> ELSE <<>>
          IN Ok(primaryContact.id, secondaryContacts,
                collect(cs, emails0, secondaryContacts, "email"),
                collect(cs, phones0, secondaryContacts, "phone"))

\* ContactRepository.create: the id is the next of the sequence, createdAt
\* and updatedAt are the clock's reading.
create(cs, t, email, phoneNumber, linkedId, linkPrecedence) ==
  Append(cs, Contact(Len(cs) + 1, email, phoneNumber, linkedId, linkPrecedence, t))

\* Variant of convertToSecondary that also blanks the row's phone number.
convertToSecondary_ClearPhone(cs, t, contactId, primaryContactId) ==
  [cs EXCEPT ![contactId] = [@ EXCEPT !.linkedId = primaryContactId,
                                      !.linkPrecedence = "secondary",
                                      !.phoneNumber = NULL,
                                      !.updatedAt = t]]

\* Variant of convertToSecondary that sets the link and leaves the row's
\* linkPrecedence as it was.
convertToSecondary_KeepPrecedence(cs, t, contactId, primaryContactId) ==
  [cs EXCEPT ![contactId] = [@ EXCEPT !.linkedId = primaryContactId, !.updatedAt = t]]

\* ContactRepository.convertToSecondary
convertToSecondary(cs, t, contactId, primaryContactId) ==
  [cs EXCEPT ![contactId] = [@ EXCEPT !.linkedId = primaryContactId,
                                      !.linkPrecedence = "secondary",
                                      !.updatedAt = t]]

Outcome(store, res, scenario) == [store |-> store, res |-> res, scenario |-> scenario]

\* Variant of createNewPrimaryContact that stores the new row as secondary.
createNewPrimaryContact_AsSecondary(cs, t, email, phoneNumber) ==
  Outcome(create(cs, t, email, phoneNumber, NULL, "secondary"),
          Ok(Len(cs) + 1, <<>>,
             IF email # NULL THEN <<email>> ELSE <<>>,
             IF phoneNumber # NULL THEN <<phoneNumber>> ELSE <<>>),
          "newPrimary")

\* IdentityLinkingService.createNewPrimaryContact
createNewPrimaryContact(cs, t, email, phoneNumber) ==
  Outcome(create(cs, t, email, phoneNumber, NULL, "primary"),
          Ok(Len(cs) + 1, <<>>,
             IF email # NULL THEN <<email>> ELSE <<>>,
             IF phoneNumber # NULL THEN <<phoneNumber>> ELSE <<>>),
          "newPrimary")

\* Variant of createSecondaryContact that links the new row to the first
\* matched row instead of to that row's primary.
createSecondaryContact_LinkToMatch(cs, t, email, phoneNumber, existingContacts, tb) ==
  IF Len(existingContacts) = 0
  THEN Outcome(cs, Err("No existing contacts found for secondary linking"), "secondary")
  ELSE LET store == create(cs, t, email, phoneNumber, existingContacts[1], "secondary")
       IN Outcome(store, getConsolidatedContact(store, store[Len(store)], tb), "secondary")

\* IdentityLinkingService.createSecondaryContact
createSecondaryContact(cs, t, email, phoneNumber, existingContacts, tb) ==
  IF Len(existingContacts) = 0
  THEN Outcome(cs, Err("No existing contacts found for secondary linking"), "secondary")
  ELSE LET allRelated == findAllRelatedContacts(cs, existingContacts, tb)
           primaries == sortByCreatedAt(cs, PrimariesOf(cs, allRelated.ids))
       IN IF allRelated.hang THEN Outcome(cs, Hang, "secondary")
          ELSE IF primaries = <<>>
          THEN Outcome(cs, Err("No primary contact found in existing contacts"), "secondary")
          ELSE LET store == create(cs, t, email, phoneNumber, primaries[1], "secondary")
               IN Outcome(store, getConsolidatedContact(store, store[Len(store)], tb), "secondary")

\* The loop over primariesToConvert in mergeContactGroups
RECURSIVE convertAll(_, _, _, _)
convertAll(cs, t, ids, primaryContactId) ==
  IF ids = <<>> THEN cs
  ELSE convertAll(convertToSecondary(cs, t, ids[1], primaryContactId), t, Tail(ids), primaryContactId)

\* Variant of OldestPrimary with the comparison reversed: the latest row.
OldestPrimary_Last(cs, allPrimaries) ==
  sortByCreatedAt(cs, allPrimaries)[Len(allPrimaries)]

\* allPrimaries.sort(...)[0]: the first of the earliest createdAt, the
\* e-mail side's primaries standing before the phone side's.
OldestPrimary(cs, allPrimaries) == sortByCreatedAt(cs, allPrimaries)[1]

\* Variant of mergeContactGroups that demotes the other primaries but does
\* not store the new observation.
mergeContactGroups_NoCreate(cs, t, email, phoneNumber, emailPrimaries, phonePrimaries, tb) ==
  LET allPrimaries == emailPrimaries \o phonePrimaries
  IN IF allPrimaries = <<>>
     THEN Outcome(cs, Err("TypeError: oldestPrimary is undefined"), "merge")
     ELSE LET oldestPrimary == cs[OldestPrimary(cs, allPrimaries)]
              primariesToConvert ==
                FilterSeq(sortByCreatedAt(cs, allPrimaries), Ids(cs) \ {oldestPrimary.id})
              store == convertAll(cs, t, primariesToConvert, oldestPrimary.id)
          IN Outcome(store, getConsolidatedContact(store, oldestPrimary, tb), "merge")

\* Variant of mergeContactGroups that stores the new observation as two
\* rows, one for the e-mail and one for the phone number.
mergeContactGroups_CreatePerField(cs, t, email, phoneNumber, emailPrimaries, phonePrimaries, tb) ==
  LET allPrimaries == emailPrimaries \o phonePrimaries
  IN IF allPrimaries = <<>>
     THEN Outcome(cs, Err("TypeError: oldestPrimary is undefined"), "merge")
     ELSE LET oldestPrimary == cs[OldestPrimary(cs, allPrimaries)]
              primariesToConvert ==
                FilterSeq(sortByCreatedAt(cs, allPrimaries), Ids(cs) \ {oldestPrimary.id})
              converted == convertAll(cs, t, primariesToConvert, oldestPrimary.id)
              withEmail == create(converted, t, email, NULL, oldestPrimary.id, "secondary")
              store == create(withEmail, t, NULL, phoneNumber, oldestPrimary.id, "secondary")
          IN Outcome(store, getConsolidatedContact(store, oldestPrimary, tb), "merge")

\* IdentityLinkingService.mergeContactGroups
mergeContactGroups(cs, t, email, phoneNumber, emailPrimaries, phonePrimaries, tb) ==
  LET allPrimaries == emailPrimaries \o phonePrimaries
  IN IF allPrimaries = <<>>
     THEN Outcome(cs, Err("TypeError: oldestPrimary is undefined"), "merge")
     ELSE LET oldestPrimary == cs[OldestPrimary(cs, allPrimaries)]
              primariesToConvert ==
                FilterSeq(sortByCreatedAt(cs, allPrimaries), Ids(cs) \ {oldestPrimary.id})
              converted == convertAll(cs, t, primariesToConvert, oldestPrimary.id)
              store == IF email # NULL \/ phoneNumber # NULL
                       THEN create(converted, t, email, phoneNumber, oldestPrimary.id, "secondary")
                       ELSE converted
          IN Outcome(store, getConsolidatedContact(store, oldestPrimary, tb), "merge")

\* Variant of handleComplexLinking without the same-group test: every call
\* that matches on both fields is treated as a merge.
handleComplexLinking_AlwaysMerge(cs, t, email, phoneNumber, emailMatches, phoneMatches, tb) ==
  LET emailRelated == findAllRelatedContacts(cs, emailMatches, tb)
      phoneRelated == findAllRelatedContacts(cs, phoneMatches, tb)
  IN IF emailRelated.hang \/ phoneRelated.hang THEN Outcome(cs, Hang, "sameGroup")
     ELSE mergeContactGroups(cs, t, email, phoneNumber,
                             PrimariesOf(cs, emailRelated.ids),
                             PrimariesOf(cs, phoneRelated.ids), tb)

\* IdentityLinkingService.handleComplexLinking
handleComplexLinking(cs, t, email, phoneNumber, emailMatches, phoneMatches, tb) ==
  LET emailRelated == findAllRelatedContacts(cs, emailMatches, tb)
      phoneRelated == findAllRelatedContacts(cs, phoneMatches, tb)
      emailPrimaries == PrimariesOf(cs, emailRelated.ids)
      phonePrimaries == PrimariesOf(cs, phoneRelated.ids)
      phoneInSameGroup == Range(phonePrimaries) \cap Range(emailPrimaries) # {}
  IN IF emailRelated.hang \/ phoneRelated.hang THEN Outcome(cs, Hang, "sameGroup")
     ELSE IF phoneInSameGroup
     THEN Outcome(cs, getConsolidatedContact(cs, cs[sortByCreatedAt(cs, emailPrimaries)[1]], tb),
                  "sameGroup")
     ELSE mergeContactGroups(cs, t, email, phoneNumber, emailPrimaries, phonePrimaries, tb)

\* Variant of handleLinkingScenario in which a request with one field only
\* that matches rows is answered from the first matched row without a new
\* row being created.
handleLinkingScenario_SingleFieldReads(cs, t, email, phoneNumber, pm, tb) ==
  IF ~pm.hasEmailMatch /\ ~pm.hasPhoneMatch
  THEN createNewPrimaryContact(cs, t, email, phoneNumber)
  ELSE IF (pm.hasEmailMatch /\ ~pm.hasPhoneMatch) \/ (~pm.hasEmailMatch /\ pm.hasPhoneMatch)
  THEN IF email = NULL \/ phoneNumber = NULL
       THEN Outcome(cs, getConsolidatedContact(cs, cs[(pm.emailMatches \o pm.phoneMatches)[1]], tb),
                    "secondary")
       ELSE createSecondaryContact(cs, t, email, phoneNumber, pm.emailMatches \o pm.phoneMatches, tb)
  ELSE handleComplexLinking(cs, t, email, phoneNumber, pm.emailMatches, pm.phoneMatches, tb)

\* IdentityLinkingService.handleLinkingScenario
handleLinkingScenario(cs, t, email, phoneNumber, pm, tb) ==
  IF ~pm.hasEmailMatch /\ ~pm.hasPhoneMatch
  THEN createNewPrimaryContact(cs, t, email, phoneNumber)
  ELSE IF (pm.hasEmailMatch /\ ~pm.hasPhoneMatch) \/ (~pm.hasEmailMatch /\ pm.hasPhoneMatch)
  THEN createSecondaryContact(cs, t, email, phoneNumber, pm.emailMatches \o pm.phoneMatches, tb)
  ELSE handleComplexLinking(cs, t, email, phoneNumber, pm.emailMatches, pm.phoneMatches, tb)

\* IdentityLinkingService.identifyContact on normalized input: the set of
\* outcomes (one per row findFirst may return).
identifyNormalized(cs, t, email, phoneNumber, tb) ==
  IF email = NULL /\ phoneNumber = NULL
  THEN {Outcome(cs, Err("Either email or phone number must be provided"), "invalid")}
  ELSE LET exact == findExactContactMatch(cs, email, phoneNumber)
       IN IF exact # {}
          THEN {Outcome(cs, getConsolidatedContact(cs, cs[x], tb), "exact") : x \in exact}
          ELSE {handleLinkingScenario(cs, t, email, phoneNumber,
                                      findPartialMatches(cs, email, phoneNumber, tb), tb)}

\* ------------------------------------------------------- a call in steps
\* No statement of IdentityLinkingService or ContactRepository opens a
\* transaction: every repository call is a statement of its own and the
\* call yields at each await.  A call is therefore a plan: the writes it
\* will issue one by one, and what it does to build its answer after them.
NoRow ==
  [id |-> NULL, email |-> NULL, phoneNumber |-> NULL, linkedId |-> NULL,
   linkPrecedence |-> "none", createdAt |-> 0, updatedAt |-> 0, deletedAt |-> NULL]

CreateOp(email, phoneNumber, linkedId, linkPrecedence) ==
  [op |-> "create", id |-> NULL, email |-> email, phoneNumber |-> phoneNumber,
   linkedId |-> linkedId, linkPrecedence |-> linkPrecedence]

ConvertOp(contactId, primaryContactId) ==
  [op |-> "convert", id |-> contactId, email |-> NULL, phoneNumber |-> NULL,
   linkedId |-> primaryContactId, linkPrecedence |-> "secondary"]

\* primaries: the primary rows the call resolved its matches to.
\* then: "result" (res is the answer), "consolidate" (the answer is
\* getConsolidatedContact(contact)), "consolidateNew" (the same, of the row
\* the create returns), "newPrimary" (built from the row the create returns).
Plan(scenario, primaries, writes, then, contact, res) ==
  [scenario |-> scenario, primaries |-> primaries, writes |-> writes, then |-> then,
   contact |-> contact, res |-> res]

\* createNewPrimaryContact up to its create
createNewPrimaryContactPlan(email, phoneNumber) ==
  Plan("newPrimary", {}, <<CreateOp(email, phoneNumber, NULL, "primary")>>, "newPrimary", NoRow, NoResult)

\* createSecondaryContact up to its create
createSecondaryContactPlan(cs, email, phoneNumber, existingContacts, tb) ==
  IF Len(existingContacts) = 0
  THEN Plan("secondary", {}, <<>>, "result", NoRow, Err("No existing contacts found for secondary linking"))
  ELSE LET allRelated == findAllRelatedContacts(cs, existingContacts, tb)
           primaries == sortByCreatedAt(cs, PrimariesOf(cs, allRelated.ids))
       IN IF allRelated.hang THEN Plan("secondary", {}, <<>>, "result", NoRow, Hang)
          ELSE IF primaries = <<>>
          THEN Plan("secondary", {}, <<>>, "result", NoRow, Err("No primary contact found in existing contacts"))
          ELSE Plan("secondary", Range(primaries),
                    <<CreateOp(email, phoneNumber, primaries[1], "secondary")>>,
                    "consolidateNew", NoRow, NoResult)

\* mergeContactGroups up to its writes: one convertToSecondary per other
\* primary, then the create
mergeContactGroupsPlan(cs, email, phoneNumber, emailPrimaries, phonePrimaries) ==
  LET allPrimaries == emailPrimaries \o phonePrimaries
  IN IF allPrimaries = <<>>
     THEN Plan("merge", {}, <<>>, "result", NoRow, Err("TypeError: oldestPrimary is undefined"))
     ELSE LET oldestPrimary == cs[OldestPrimary(cs, allPrimaries)]
              primariesToConvert ==
                FilterSeq(sortByCreatedAt(cs, allPrimaries), Ids(cs) \ {oldestPrimary.id})
              converts == [k \in 1..Len(primariesToConvert) |->
                             ConvertOp(primariesToConvert[k], oldestPrimary.id)]
              creates == IF email # NULL \/ phoneNumber # NULL
                         THEN <<CreateOp(email, phoneNumber, oldestPrimary.id, "secondary")>>
                         ELSE <<>>
          IN Plan("merge", Range(allPrimaries), converts \o creates, "consolidate",
                  oldestPrimary, NoResult)

\* handleComplexLinking up to the same-group decision
handleComplexLinkingPlan(cs, email, phoneNumber, emailMatches, phoneMatches, tb) ==
  LET emailRelated == findAllRelatedContacts(cs, emailMatches, tb)
      phoneRelated == findAllRelatedContacts(cs, phoneMatches, tb)
      emailPrimaries == PrimariesOf(cs, emailRelated.ids)
      phonePrimaries == PrimariesOf(cs, phoneRelated.ids)
      phoneInSameGroup == Range(phonePrimaries) \cap Range(emailPrimaries) # {}
  IN IF emailRelated.hang \/ phoneRelated.hang
     THEN Plan("sameGroup", {}, <<>>, "result", NoRow, Hang)
     ELSE IF phoneInSameGroup
     THEN Plan("sameGroup", Range(emailPrimaries) \cup Range(phonePrimaries), <<>>, "consolidate",
               cs[sortByCreatedAt(cs, emailPrimaries)[1]], NoResult)
     ELSE mergeContactGroupsPlan(cs, email, phoneNumber, emailPrimaries, phonePrimaries)

\* handleLinkingScenario
handleLinkingScenarioPlan(cs, email, phoneNumber, pm, tb) ==
  IF ~pm.hasEmailMatch /\ ~pm.hasPhoneMatch
  THEN createNewPrimaryContactPlan(email, phoneNumber)
  ELSE IF (pm.hasEmailMatch /\ ~pm.hasPhoneMatch) \/ (~pm.hasEmailMatch /\ pm.hasPhoneMatch)
  THEN createSecondaryContactPlan(cs, email, phoneNumber, pm.emailMatches \o pm.phoneMatches, tb)
  ELSE handleComplexLinkingPlan(cs, email, phoneNumber, pm.emailMatches, pm.phoneMatches, tb)

\* identifyContact from its first query to its first write: the plans it
\* may settle on (one per row findFirst may return).
identifyContactPlan(cs, email, phoneNumber, tb) ==
  LET exact == findExactContactMatch(cs, email, phoneNumber)
  IN IF exact # {}
     THEN {Plan("exact", {}, <<>>, "consolidate", cs[x], NoResult) : x \in exact}
     ELSE {handleLinkingScenarioPlan(cs, email, phoneNumber,
                                     findPartialMatches(cs, email, phoneNumber, tb), tb)}

\* One repository write
applyWrite(cs, t, w) ==
  IF w.op = "create"
  THEN create(cs, t, w.email, w.phoneNumber, w.linkedId, w.linkPrecedence)
  ELSE convertToSecondary(cs, t, w.id, w.linkedId)

\* ContactRepository.softDelete
softDelete(cs, t, id) ==
  [cs EXCEPT ![id] = [@ EXCEPT !.deletedAt = t, !.updatedAt = t]]


\* ---------------------------------------------------------------- actions
NoRepeat ==
  [scenario |-> "none", status |-> "none", primaryId |-> NULL,
   held |-> FALSE, changed |-> FALSE]

\* last.pre is the store the call started from; last.repeated describes the
\* call before it when that call had the same normalized input: what it
\* returned, whether a live row held its exact pair when it started (held)
\* and whether it changed the store (changed).
NoCall ==
  [email |-> NULL, phoneNumber |-> NULL, scenario |-> "none", res |-> NoResult,
   pre |-> <<>>, repeated |-> NoRepeat]

\* formatContactResponse
formatContactResponse(consolidatedContact) ==
  [primaryContactId |-> consolidatedContact.primaryContact.id,
   emails |-> consolidatedContact.allEmails,
   phoneNumbers |-> consolidatedContact.allPhoneNumbers,
   secondaryContactIds |-> [k \in 1..Len(consolidatedContact.secondaryContacts) |->
                              consolidatedContact.secondaryContacts[k].id]]

NoContactResponse ==
  [primaryContactId |-> NULL, emails |-> <<>>, phoneNumbers |-> <<>>, secondaryContactIds |-> <<>>]

\* Nothing has been handed to formatContactResponse.
NoResponse ==
  [given |-> [primaryContact |-> NoRow, secondaryContacts |-> <<>>,
              allEmails |-> <<>>, allPhoneNumbers |-> <<>>],
   sent |-> NoContactResponse, formatted |-> FALSE]

\* The rate limiter before the process has served a request.  keys are the
\* client keys (0 is "unknown"); requestCounts is the Map of that name;
\* windows[k] is the window of key k as the requests define it (open, its
\* end, the requests of k handed to next() and those answered 429 in it);
\* answer is what the most recent request got.
NoLimiter ==
  [nodeEnv |-> "production", clock |-> 0,
   requestCounts |-> <<>>,
   windows |-> <<>>,
   answer |-> [clientIp |-> NULL, status |-> "none", further |-> FALSE]]

\* No consolidatePrimaryContacts call has been made.
NoConsolidation ==
  [called |-> FALSE, primaryContacts |-> <<>>, newEmail |-> NULL, newPhoneNumber |-> NULL,
   status |-> "none", primaryId |-> NULL, n |-> 0]

\* Nothing has been handed to detectCircularReferences.
NoDetection == [given |-> <<>>, threw |-> FALSE, done |-> FALSE]

Procs == 1..NumProcs

\* A request slot: pc is where its call stands ("idle" before the first
\* call; "lookup" before the queries; "write" while writes remain;
\* "respond" before the closing getConsolidatedContact; "done"; "hung" when
\* the primary lookup never returns).  seen is the store the queries read
\* (kept until the call answers), accessed whether the call has issued a
\* store operation, sawPartial whether its queries ran while another call
\* stood between two writes, n the calls the slot has begun.
IdleCall ==
  [pc |-> "idle", email |-> NULL, phoneNumber |-> NULL, scenario |-> "none",
   primaries |-> {}, seen |-> <<>>, pending |-> <<>>, applied |-> 0, then |-> "result",
   contact |-> NoRow, createdId |-> NULL, accessed |-> FALSE,
   sawPartial |-> FALSE, res |-> NoResult, n |-> 0]

Init ==
  /\ contacts = <<>>
  /\ now = 1
  /\ last = NoCall
  /\ calls = [p \in Procs |-> IdleCall]
  /\ response = NoResponse
  /\ limiter = NoLimiter
  /\ consolidation = NoConsolidation
  /\ detection = NoDetection

\* Values are compared for equality only, so of the values no row holds
\* yet a request carries the least one.
HeldEmails(cs) == {cs[i].email : i \in Ids(cs)} \ {NULL}
HeldPhones(cs) == {cs[i].phoneNumber : i \in Ids(cs)} \ {NULL}
Fresh(all, held) == IF all \ held = {} THEN {} ELSE {Min(all \ held)}

RequestEmails(cs) ==
  {r \in RawEmails : r[2] \in {0} \cup HeldEmails(cs) \cup Fresh(Emails, HeldEmails(cs))}
RequestPhones(cs) ==
  {r \in RawPhones : r[2] \in {0} \cup HeldPhones(cs) \cup Fresh(Phones, HeldPhones(cs))}

\* One complete call of IdentityLinkingService.identifyContact.
identifyContact ==
  \E email \in {validateEmail(raw) : raw \in RequestEmails(contacts)},
     phoneNumber \in {validatePhoneNumber(raw) : raw \in RequestPhones(contacts)},
     tb \in TieOrders :
    \E out \in identifyNormalized(contacts, now, email, phoneNumber, tb) :
      /\ Len(out.store) <= MaxContacts
      /\ contacts' = out.store
      /\ last' = [email |-> email, phoneNumber |-> phoneNumber,
                  scenario |-> out.scenario, res |-> out.res, pre |-> contacts,
                  repeated |-> IF last.scenario # "none" /\ last.email = email
                                  /\ last.phoneNumber = phoneNumber
                               THEN [scenario |-> last.scenario, status |-> last.res.status,
                                     primaryId |-> last.res.primaryId,
                                     held |-> \E i \in Ids(last.pre) :
                                                /\ last.pre[i].email = email
                                                /\ last.pre[i].phoneNumber = phoneNumber
                                                /\ last.pre[i].deletedAt = NULL,
                                     changed |-> contacts # last.pre]
                               ELSE NoRepeat]
      /\ UNCHANGED <<others, response, now, calls>>

\* The clock moves on between calls.
Tick ==
  /\ now < MaxTime
  /\ now' = now + 1
  /\ UNCHANGED <<others, response, contacts, last, calls>>

Next == identifyContact \/ Tick

Spec == Init /\ [][Next]_vars

\* ------------------------------------------------- formatting an answer
\* The orders in which the values of S can be listed, each once.
Orderings(S) == {s \in [1..Cardinality(S) -> S] : Range(s) = S}

\* ConsolidatedContact values: a primary row, no or one secondary row of
\* it, and the non-null e-mails and phone numbers of the rows listed in any
\* order (the formatter's test hands it the secondary's values first).
ConsolidatedContacts ==
  LET primaries == {Contact(1, e, p, NULL, "primary", 1) : e \in {NULL} \cup Emails, p \in {NULL} \cup Phones}
      secondaries == {<<>>} \cup {<<Contact(2, e, p, 1, "secondary", 1)>> :
                                    e \in {NULL} \cup Emails, p \in {NULL} \cup Phones}
  IN UNION {UNION {{[primaryContact |-> pc, secondaryContacts |-> sc,
                     allEmails |-> es, allPhoneNumbers |-> ps] :
                      es \in Orderings(({pc.email} \cup {sc[k].email : k \in 1..Len(sc)}) \ {NULL}),
                      ps \in Orderings(({pc.phoneNumber} \cup {sc[k].phoneNumber : k \in 1..Len(sc)}) \ {NULL})} :
                   sc \in secondaries} : pc \in primaries}

InitFormat ==
  /\ contacts = <<>>
  /\ now = 1
  /\ last = NoCall
  /\ calls = [p \in Procs |-> IdleCall]
  /\ \E cc \in ConsolidatedContacts : response = [NoResponse EXCEPT !.given = cc]
  /\ limiter = NoLimiter
  /\ consolidation = NoConsolidation
  /\ detection = NoDetection

\* formatContactResponse applied to the value handed in.
formatResponse ==
  /\ ~response.formatted
  /\ response' = [response EXCEPT !.sent = formatContactResponse(response.given),
                                  !.formatted = TRUE]
  /\ UNCHANGED <<others, contacts, now, last, calls>>

SpecFormat == InitFormat /\ [][formatResponse]_vars

\* ------------------------------------------------- calls that interleave
\* Variant of beginCall in which the empty-input test comes after the
\* exact-match query.
beginCall_CheckAfterQuery(email, phoneNumber) ==
  IF email = NULL /\ phoneNumber = NULL
  THEN [IdleCall EXCEPT !.pc = "done", !.scenario = "invalid", !.accessed = TRUE,
                        !.res = Err("Either email or phone number must be provided")]
  ELSE [IdleCall EXCEPT !.pc = "lookup", !.email = email, !.phoneNumber = phoneNumber]

\* identifyContact up to its first await: the input is normalized and an
\* empty input is rejected.
beginCall(email, phoneNumber) ==
  IF email = NULL /\ phoneNumber = NULL
  THEN [IdleCall EXCEPT !.pc = "done", !.scenario = "invalid",
                        !.res = Err("Either email or phone number must be provided")]
  ELSE [IdleCall EXCEPT !.pc = "lookup", !.email = email, !.phoneNumber = phoneNumber]

\* A call stands between two of its writes.
MidWrites(c) == c.pc = "write" /\ c.applied > 0

\* Rows the calls in flight will still create.
PendingCreates ==
  LET n(c) == Cardinality({k \in 1..Len(c.pending) : c.pending[k].op = "create"})
      RECURSIVE sum(_)
      sum(P) == IF P = {} THEN 0 ELSE LET p == CHOOSE x \in P : TRUE
                                      IN n(calls[p]) + sum(P \ {p})
  IN sum(Procs)

Ended(res) == IF res.status = "hang" THEN "hung" ELSE "done"

\* Calls begun so far, over all slots.
CallsBegun ==
  LET RECURSIVE sum(_)
      sum(P) == IF P = {} THEN 0 ELSE LET p == CHOOSE x \in P : TRUE
                                      IN calls[p].n + sum(P \ {p})
  IN sum(Procs)

\* The call on slot p as its queries leave it, having read the store cs and
\* settled on plan.
afterQueries(c, cs, plan, partial) ==
  [c EXCEPT !.pc = IF plan.writes # <<>> THEN "write"
                   ELSE IF plan.then = "result" THEN Ended(plan.res)
                   ELSE "respond",
            !.scenario = plan.scenario, !.primaries = plan.primaries,
            !.seen = IF plan.writes = <<>> /\ plan.then = "result" THEN <<>> ELSE cs,
            !.pending = plan.writes, !.then = plan.then,
            !.contact = plan.contact, !.res = plan.res,
            !.accessed = TRUE, !.sawPartial = partial]

\* Variant of afterFailure in which the call notes the error and carries
\* on with what it was about to issue.
afterFailure_Retry(c) ==
  [c EXCEPT !.accessed = TRUE, !.res = Err("store operation failed")]

\* A store operation rejected: the error propagates out of identifyContact,
\* which has no catch, and nothing more is issued.
afterFailure(c) ==
  [c EXCEPT !.pc = "done", !.pending = <<>>, !.accessed = TRUE,
            !.then = "result", !.contact = NoRow,
            !.res = Err("store operation failed")]

\* The call has its answer.
afterAnswer(c, res) ==
  [c EXCEPT !.pc = Ended(res), !.res = res, !.then = "result", !.contact = NoRow,
            !.seen = <<>>]

\* A request arrives on slot p and the call runs to its first write: input
\* check, exact match, partial matches, related contacts.
begin(p) ==
  /\ calls[p].pc \in {"idle", "done"}
  /\ CallsBegun < MaxCalls
  /\ \E email \in {validateEmail(raw) : raw \in RequestEmails(contacts)},
        phoneNumber \in {validatePhoneNumber(raw) : raw \in RequestPhones(contacts)} :
       LET c == [beginCall(email, phoneNumber) EXCEPT !.n = calls[p].n + 1]
       IN IF c.pc # "lookup"
          THEN calls' = [calls EXCEPT ![p] = c]
          ELSE \E tb \in TieOrders :
                 \E plan \in identifyContactPlan(contacts, email, phoneNumber, tb) :
                   /\ Len(contacts) + PendingCreates
                        + Cardinality({k \in 1..Len(plan.writes) : plan.writes[k].op = "create"})
                        <= MaxContacts
                   /\ calls' = [calls EXCEPT ![p] =
                        afterQueries(c, contacts, plan,
                                     \E q \in Procs \ {p} : MidWrites(calls[q]))]
  /\ UNCHANGED <<others, response, contacts, now, last>>

\* The next write of the call on slot p.
write(p) ==
  /\ calls[p].pc = "write"
  /\ LET c == calls[p]
         w == Head(c.pending)
         store == applyWrite(contacts, now, w)
         row == store[Len(store)]
         rest == Tail(c.pending)
         d == [c EXCEPT !.pending = rest,
                        !.applied = @ + 1,
                        !.createdId = IF w.op = "create" THEN row.id ELSE @]
     IN /\ contacts' = store
        /\ calls' = [calls EXCEPT ![p] =
             IF rest # <<>> THEN d
             ELSE IF c.then = "newPrimary"
             THEN afterAnswer(d, Ok(row.id, <<>>,
                                    IF c.email # NULL THEN <<c.email>> ELSE <<>>,
                                    IF c.phoneNumber # NULL THEN <<c.phoneNumber>> ELSE <<>>))
             ELSE [d EXCEPT !.pc = "respond", !.then = "consolidate",
                            !.contact = IF c.then = "consolidateNew" THEN row ELSE @]]
  /\ UNCHANGED <<others, response, now, last>>

\* The closing getConsolidatedContact of the call on slot p.
respond(p) ==
  /\ calls[p].pc = "respond"
  /\ \E tb \in TieOrders :
       LET res == getConsolidatedContact(contacts, calls[p].contact, tb)
       IN calls' = [calls EXCEPT ![p] = afterAnswer(@, res)]
  /\ UNCHANGED <<others, response, contacts, now, last>>

\* A request arrives on slot p and the first query of its call rejects.
queryFailure(p) ==
  /\ calls[p].pc \in {"idle", "done"}
  /\ CallsBegun < MaxCalls
  /\ \E email \in {validateEmail(raw) : raw \in RequestEmails(contacts)},
        phoneNumber \in {validatePhoneNumber(raw) : raw \in RequestPhones(contacts)} :
       LET c == [beginCall(email, phoneNumber) EXCEPT !.n = calls[p].n + 1]
       IN /\ c.pc = "lookup"
          /\ calls' = [calls EXCEPT ![p] = afterFailure([c EXCEPT !.seen = contacts])]
  /\ UNCHANGED <<others, response, contacts, now, last>>

\* The store operation the call on slot p is waiting for rejects.
storeFailure(p) ==
  /\ calls[p].pc \in {"write", "respond"}
  /\ calls' = [calls EXCEPT ![p] = afterFailure(@)]
  /\ UNCHANGED <<others, response, contacts, now, last>>

\* Calls on all slots, the store answering every operation.
NextConc ==
  \/ \E p \in Procs : begin(p) \/ write(p) \/ respond(p)
  \/ Tick

SpecConc == Init /\ [][NextConc]_vars

\* Calls one after the other on slot 1, any store operation may reject.
NextFail ==
  \/ begin(1) \/ write(1) \/ respond(1)
  \/ queryFailure(1) \/ storeFailure(1)
  \/ Tick

SpecFail == Init /\ [][NextFail]_vars

\* ------------------------------------------------------ with soft delete
\* ContactRepository.softDelete applied to a live row.
softDeleteContact ==
  /\ Cardinality({i \in Ids(contacts) : contacts[i].deletedAt # NULL}) < MaxDeleted
  /\ \E id \in Ids(contacts) :
       /\ contacts[id].deletedAt = NULL
       /\ contacts' = softDelete(contacts, now, id)
  /\ UNCHANGED <<others, response, now, last, calls>>

\* Calls one after the other on slot 1, rows being soft-deleted meanwhile.
NextAdmin ==
  \/ begin(1) \/ write(1) \/ respond(1)
  \/ softDeleteContact
  \/ Tick

SpecAdmin == Init /\ [][NextAdmin]_vars

\* ------------------------------------------------------------- properties
Live(cs) == {i \in Ids(cs) : cs[i].deletedAt = NULL}

\* The primary a row belongs to: itself when primary, else the end of its
\* linkedId chain (NULL when the chain breaks or never ends).
RECURSIVE ClusterPrimaryFrom(_, _, _)
ClusterPrimaryFrom(cs, i, fuel) ==
  IF i \notin Live(cs) THEN NULL
  ELSE IF cs[i].linkPrecedence = "primary" THEN i
  ELSE IF fuel = 0 THEN NULL
  ELSE ClusterPrimaryFrom(cs, cs[i].linkedId, fuel - 1)

ClusterPrimary(cs, i) == ClusterPrimaryFrom(cs, i, Len(cs))

HoldersOfEmail(cs, email) == {i \in Live(cs) : email # NULL /\ cs[i].email = email}
HoldersOfPhone(cs, phone) == {i \in Live(cs) : phone # NULL /\ cs[i].phoneNumber = phone}
HoldersOfPair(cs, email, phone) ==
  {i \in Live(cs) : cs[i].email = email /\ cs[i].phoneNumber = phone}

Called == last.scenario # "none"
Created == Len(contacts) - Len(last.pre)
KeptRows == SubSeq(contacts, 1, Len(last.pre))
NewRow == contacts[Len(contacts)]

\* Primaries of the store before the call that the call turned secondary.
Demoted ==
  {i \in Ids(last.pre) : /\ last.pre[i].linkPrecedence = "primary"
                         /\ contacts[i].linkPrecedence = "secondary"}

\* C1: every live secondary has a linkedId that names a live primary, so no
\* chain of links is longer than one hop.
C1_SecondaryLinksToLivePrimary ==
  \A i \in Live(contacts) :
    contacts[i].linkPrecedence = "secondary" =>
      /\ contacts[i].linkedId \in Live(contacts)
      /\ contacts[contacts[i].linkedId].linkPrecedence = "primary"

\* C2: after a call that merged two clusters, every row that was a secondary
\* of a demoted primary links to the winner, and no row links to a demoted
\* primary.
C2_LosersSecondariesRepointed ==
  \A l \in Demoted :
    /\ \A i \in Ids(last.pre) :
         last.pre[i].linkedId = l => contacts[i].linkedId = contacts[l].linkedId
    /\ \A i \in Ids(contacts) : contacts[i].linkedId # l

\* The pairs (a, b) of distinct cluster primaries such that, in the store
\* the call started from, the given e-mail is held in a's cluster and the
\* given phone in b's.
MergePairs ==
  {ab \in Ids(last.pre) \X Ids(last.pre) :
     /\ ab[1] # ab[2]
     /\ \E c \in HoldersOfEmail(last.pre, last.email) : ClusterPrimary(last.pre, c) = ab[1]
     /\ \E c \in HoldersOfPhone(last.pre, last.phoneNumber) : ClusterPrimary(last.pre, c) = ab[2]}

WinnerIs(w, l) ==
  /\ last.res.status = "ok"
  /\ last.res.primaryId = w
  /\ contacts[w].linkPrecedence = "primary"
  /\ contacts[l].linkPrecedence = "secondary"
  /\ contacts[l].linkedId = w

\* C3: a call whose e-mail lies in one cluster and whose phone lies in
\* another, the two primaries differing in createdAt, keeps the earlier
\* primary, demotes the other to a secondary of it and returns the earlier.
C3_EarlierCreatedAtWins ==
  \A ab \in MergePairs :
    LET a == ab[1]
        b == ab[2]
    IN /\ last.pre[a].createdAt < last.pre[b].createdAt => WinnerIs(a, b)
       /\ last.pre[b].createdAt < last.pre[a].createdAt => WinnerIs(b, a)

C3_Witness ==
  /\ Called
  /\ \E ab \in MergePairs : last.pre[ab[1]].createdAt > last.pre[ab[2]].createdAt
  /\ Demoted # {}

\* C4: when the two primaries to merge have the same createdAt, the one
\* with the lower id wins, whichever of them the e-mail led to.
C4_TieGoesToLowestId ==
  \A ab \in MergePairs :
    LET a == ab[1]
        b == ab[2]
    IN last.pre[a].createdAt = last.pre[b].createdAt =>
         IF a < b THEN WinnerIs(a, b) ELSE WinnerIs(b, a)

\* C5: when no live row holds the given e-mail or the given phone, the call
\* adds exactly one row, a primary without link carrying the given values,
\* leaves every other row alone and returns the new row with no secondaries.
C5_NoMatchCreatesPrimary ==
  ( /\ Called
    /\ last.email # NULL \/ last.phoneNumber # NULL
    /\ HoldersOfEmail(last.pre, last.email) = {}
    /\ HoldersOfPhone(last.pre, last.phoneNumber) = {} )
  => /\ Created = 1
     /\ KeptRows = last.pre
     /\ NewRow.linkPrecedence = "primary"
     /\ NewRow.linkedId = NULL
     /\ NewRow.email = last.email
     /\ NewRow.phoneNumber = last.phoneNumber
     /\ last.res.status = "ok"
     /\ last.res.primaryId = NewRow.id
     /\ last.res.secondaryIds = <<>>

C5_Witness ==
  /\ Called
  /\ Len(last.pre) >= 2
  /\ HoldersOfEmail(last.pre, last.email) = {}
  /\ HoldersOfPhone(last.pre, last.phoneNumber) = {}
  /\ Created = 1

\* C6: when a live row already holds exactly the given pair, two calls in a
\* row with that pair leave the store as it was and return the same primary.
C6_ExactMatchIdempotent ==
  last.repeated.held =>
    /\ ~last.repeated.changed
    /\ contacts = last.pre
    /\ last.repeated.status = "ok"
    /\ last.res.status = "ok"
    /\ last.res.primaryId = last.repeated.primaryId

C6_Witness ==
  /\ last.repeated.held
  /\ \E i \in HoldersOfPair(contacts, last.email, last.phoneNumber) :
       contacts[i].linkPrecedence = "secondary"

\* C7: with both fields given, one of them held by live rows and the other
\* by none, the call adds exactly one row: a secondary with the given values
\* linked to the primary of the matched rows' cluster; it changes no other
\* row and returns that primary.
C7_PartialMatchAttachesSecondary ==
  LET he == HoldersOfEmail(last.pre, last.email)
      hp == HoldersOfPhone(last.pre, last.phoneNumber)
  IN ( /\ Called
       /\ last.email # NULL /\ last.phoneNumber # NULL
       /\ (he = {}) # (hp = {}) )
     => /\ Created = 1
        /\ KeptRows = last.pre
        /\ NewRow.linkPrecedence = "secondary"
        /\ NewRow.email = last.email
        /\ NewRow.phoneNumber = last.phoneNumber
        /\ \A c \in he \cup hp : ClusterPrimary(last.pre, c) = NewRow.linkedId
        /\ last.res.status = "ok"
        /\ last.res.primaryId = NewRow.linkedId

C7_Witness ==
  LET he == HoldersOfEmail(last.pre, last.email)
      hp == HoldersOfPhone(last.pre, last.phoneNumber)
  IN /\ Called
     /\ last.email # NULL /\ last.phoneNumber # NULL
     /\ (he = {}) # (hp = {})
     /\ \E c \in he \cup hp : last.pre[c].linkPrecedence = "secondary"
     /\ Created = 1

\* The given e-mail and the given phone are held inside one cluster of the
\* store the call started from.
HeldInOneCluster ==
  \E c1 \in HoldersOfEmail(last.pre, last.email),
     c2 \in HoldersOfPhone(last.pre, last.phoneNumber) :
       /\ ClusterPrimary(last.pre, c1) # NULL
       /\ ClusterPrimary(last.pre, c1) = ClusterPrimary(last.pre, c2)

\* C8: when the given e-mail and the given phone are both held inside one
\* cluster, the call writes nothing, also when no single row holds both.
C8_SameClusterWritesNothing ==
  (Called /\ HeldInOneCluster) => contacts = last.pre

C8_Witness ==
  /\ Called
  /\ HeldInOneCluster
  /\ HoldersOfPair(last.pre, last.email, last.phoneNumber) = {}
  /\ contacts = last.pre

\* C9: no cluster holds two live rows with the same (email, phoneNumber)
\* pair, compared field by field with null equal to null only.
C9_NoDuplicatePairInCluster ==
  \A i, j \in Live(contacts) :
    ( /\ i < j
      /\ ClusterPrimary(contacts, i) # NULL
      /\ ClusterPrimary(contacts, i) = ClusterPrimary(contacts, j) )
    => ~ ( /\ contacts[i].email = contacts[j].email
           /\ contacts[i].phoneNumber = contacts[j].phoneNumber )

C9_Witness ==
  /\ Called
  /\ Len(contacts) >= 3
  /\ last.email = NULL \/ last.phoneNumber = NULL
  /\ HoldersOfPair(last.pre, last.email, last.phoneNumber) # {}
  /\ contacts = last.pre

\* The primaries the demoted rows were linked to, and the rows of the store
\* the call started from that lie in their clusters after the call.
Winners == {contacts[l].linkedId : l \in Demoted}
MergedCluster == {i \in Ids(last.pre) : ClusterPrimary(contacts, i) \in Winners}

\* C10: a call that merges two clusters adds exactly one row, a secondary of
\* the winner with the given pair, when no row of the merged cluster holds
\* that pair, and adds no row otherwise.
C10_MergeCreatesOneSecondary ==
  Demoted # {} =>
    IF \A i \in MergedCluster :
         ~(last.pre[i].email = last.email /\ last.pre[i].phoneNumber = last.phoneNumber)
    THEN /\ Created = 1
         /\ NewRow.linkPrecedence = "secondary"
         /\ NewRow.email = last.email
         /\ NewRow.phoneNumber = last.phoneNumber
         /\ Winners = {NewRow.linkedId}
    ELSE Created = 0

C10_Witness ==
  /\ Demoted # {}
  /\ Created = 1
  /\ Cardinality(MergedCluster) >= 3

\* ------------------------------------------ properties of interleaved calls
Answered(c) == c.pc = "done" /\ c.res.status = "ok"

\* Both slots hold answered calls that each set out to merge the same two
\* primaries a and b.
BothMerged(p, q, a, b) ==
  /\ p # q /\ a # b
  /\ Answered(calls[p]) /\ Answered(calls[q])
  /\ calls[p].scenario = "merge" /\ calls[q].scenario = "merge"
  /\ calls[p].primaries = {a, b} /\ calls[q].primaries = {a, b}

\* C11: when two calls in flight together both found the same two primaries
\* in different clusters and merged them, then after both have answered one
\* of the two is still primary and the other is a secondary linked to it.
C11_OneWinnerUnderRace ==
  \A p, q \in Procs : \A a, b \in Ids(contacts) :
    BothMerged(p, q, a, b) =>
      \/ /\ contacts[a].linkPrecedence = "primary"
         /\ contacts[b].linkPrecedence = "secondary" /\ contacts[b].linkedId = a
      \/ /\ contacts[b].linkPrecedence = "primary"
         /\ contacts[a].linkPrecedence = "secondary" /\ contacts[a].linkedId = b

\* Rows with the given pair that the calls now held by the slots created.
CreatedWithPair(email, phoneNumber) ==
  {i \in Ids(contacts) :
     /\ \E p \in Procs : calls[p].createdId = i
     /\ contacts[i].email = email /\ contacts[i].phoneNumber = phoneNumber}

\* C12: when two calls with the same normalized pair have both ended, at
\* most one row with that pair was created by the two of them.
C12_NoDoubleCreate ==
  \A p, q \in Procs :
    (p # q /\ calls[p].pc = "done" /\ calls[q].pc = "done"
       /\ calls[p].scenario # "invalid"
       /\ calls[p].email = calls[q].email
       /\ calls[p].phoneNumber = calls[q].phoneNumber)
      => Cardinality({i \in CreatedWithPair(calls[p].email, calls[p].phoneNumber) :
                        i \in {calls[p].createdId, calls[q].createdId}}) <= 1

\* C13: no call runs its queries while another call stands between two of
\* its writes, that is on a store holding some but not all of them.
C13_WritesAtomic ==
  \A p \in Procs : ~calls[p].sawPartial

\* ------------------------------------------------ properties under faults
Rejected(c) == c.pc = "done" /\ c.res.error = "store operation failed"

\* C14: when a store operation of a call rejects, the store is as the call
\* found it.
C14_FailureRollsBack ==
  Rejected(calls[1]) => contacts = calls[1].seen

\* C15: a call whose e-mail and phone number both normalize to null ends
\* with an error without having issued a store operation.
C15_EmptyInputNoStoreAccess ==
  \A p \in Procs :
    (calls[p].pc # "idle" /\ calls[p].email = NULL /\ calls[p].phoneNumber = NULL)
      => /\ calls[p].pc = "done"
         /\ calls[p].res.status = "error"
         /\ ~calls[p].accessed
         /\ calls[p].applied = 0

C15_Witness ==
  /\ calls[1].pc = "done"
  /\ calls[1].email = NULL /\ calls[1].phoneNumber = NULL
  /\ calls[1].res.error = "Either email or phone number must be provided"
  /\ Len(contacts) >= 2

\* ------------------------------------------------ properties of the answer
\* out lists the non-null values of vals, each once, in the order of their
\* first appearance in vals.
FirstIndex(vals, v) == Min({k \in 1..Len(vals) : vals[k] = v})
FirstAppearances(out, vals) ==
  /\ Range(out) = Range(vals) \ {NULL}
  /\ \A i, j \in 1..Len(out) : i < j => FirstIndex(vals, out[i]) < FirstIndex(vals, out[j])

\* C16: an answer lists its secondaries by ascending createdAt, and its
\* e-mails (phone numbers) are the non-null e-mails (phone numbers) of the
\* primary and then of the secondaries in that order, each once at its first
\* appearance.
C16_AnswerOrdered ==
  (Called /\ last.res.status = "ok") =>
    LET sec == last.res.secondaryIds
        prim == contacts[last.res.primaryId]
    IN /\ \A i, j \in 1..Len(sec) : i < j => contacts[sec[i]].createdAt <= contacts[sec[j]].createdAt
       /\ FirstAppearances(last.res.allEmails,
                           <<prim.email>> \o [k \in 1..Len(sec) |-> contacts[sec[k]].email])
       /\ FirstAppearances(last.res.allPhoneNumbers,
                           <<prim.phoneNumber>> \o [k \in 1..Len(sec) |-> contacts[sec[k]].phoneNumber])

C16_Witness ==
  /\ Called /\ last.res.status = "ok"
  /\ Len(last.res.secondaryIds) >= 2
  /\ contacts[last.res.secondaryIds[1]].createdAt < contacts[last.res.secondaryIds[2]].createdAt
  /\ contacts[last.res.secondaryIds[2]].email = contacts[last.res.primaryId].email
  /\ Len(last.res.allPhoneNumbers) = 2

\* ---------------------------------------------- properties of the queries
\* C17: for every primary row p, findLinkedContacts(p) hands back the live
\* rows among p and the rows whose linkedId is p, and no row of them other
\* than p is primary.
C17_LinkedContactsOfPrimary ==
  \A p \in Ids(contacts) : \A tb \in TieOrders :
    contacts[p].linkPrecedence = "primary" =>
      LET got == Range(findLinkedContacts(contacts, p, tb))
      IN /\ got = {i \in Live(contacts) : i = p \/ contacts[i].linkedId = p}
         /\ \A i \in got : contacts[i].linkPrecedence = "primary" => i = p

C17_Witness ==
  \E p \in Live(contacts) :
    /\ contacts[p].linkPrecedence = "primary"
    /\ \E i \in Live(contacts) : contacts[i].linkedId = p
    /\ \E i \in Ids(contacts) : contacts[i].linkedId = p /\ contacts[i].deletedAt # NULL

\* Row x is a secondary whose linkedId names a row that is itself secondary.
SecondHop(cs, x) ==
  /\ cs[x].linkPrecedence = "secondary"
  /\ cs[x].linkedId \in Ids(cs)
  /\ cs[cs[x].linkedId].linkPrecedence = "secondary"

\* The call found its pair on a row that needs a second hop.
ExactOnSecondHop ==
  /\ Called /\ last.scenario = "exact"
  /\ \A x \in HoldersOfPair(last.pre, last.email, last.phoneNumber) : SecondHop(last.pre, x)

\* C18: a call that must resolve the primary of a secondary whose
\* linkedId names another secondary ends with an error.
C18_SecondHopFails ==
  ExactOnSecondHop => last.res.status = "error"

\* ------------------------------------------- properties on corrupted data
\* Live rows of cs that hold the e-mail or the phone number: the rows the
\* partial-match queries hand back.
Matched(cs, email, phoneNumber) ==
  HoldersOfEmail(cs, email) \cup HoldersOfPhone(cs, phoneNumber)

\* Row x of cs is a secondary whose linkedId leads to no live primary.
Orphan(cs, x) ==
  /\ cs[x].linkPrecedence = "secondary"
  /\ findPrimaryContact(cs, cs[x].linkedId) = NULL

\* C19: a call whose queries matched a secondary whose linkedId leads to no
\* live primary is rejected and writes nothing.
C19_OrphanMatchRejected ==
  \A p \in Procs :
    LET c == calls[p]
    IN (c.seen # <<>> /\ \E x \in Matched(c.seen, c.email, c.phoneNumber) : Orphan(c.seen, x))
         => c.applied = 0

\* C20: a call that matched on one field only, and whose matches resolve to
\* more than one primary, ends with an error and creates no row.
C20_ManyPrimariesRejected ==
  \A p \in Procs :
    (calls[p].pc = "done" /\ calls[p].scenario = "secondary"
       /\ Cardinality(calls[p].primaries) > 1)
      => calls[p].res.status = "error" /\ calls[p].createdId = NULL

\* ------------------------------------------------ properties of the links
\* C21: no call is left waiting for a primary lookup that never returns,
\* and on the store as it stands a call for the pair of any row returns.
C21_EveryCallReturns ==
  /\ \A p \in Procs : calls[p].pc # "hung"
  /\ \A x \in Ids(contacts) : \A tb \in TieOrders :
       \A out \in identifyNormalized(contacts, now, contacts[x].email, contacts[x].phoneNumber, tb) :
         out.res.status # "hang"

\* Following linkedId from row i for at most fuel hops ends at a row whose
\* linkedId is null.
RECURSIVE ChainEnds(_, _, _)
ChainEnds(cs, i, fuel) ==
  IF i \notin Ids(cs) THEN FALSE
  ELSE IF cs[i].linkedId = NULL THEN TRUE
  ELSE IF fuel = 0 THEN FALSE
  ELSE ChainEnds(cs, cs[i].linkedId, fuel - 1)

\* C30: no row links to itself and the linkedId chain of every row ends at
\* a row without linkedId.
C30_LinksAcyclic ==
  \A i \in Ids(contacts) :
    /\ contacts[i].linkedId # i
    /\ ChainEnds(contacts, i, Len(contacts))

\* C22: every primary row has no linkedId.
C22_PrimaryHasNoLink ==
  \A i \in Ids(contacts) :
    contacts[i].linkPrecedence = "primary" => contacts[i].linkedId = NULL

C22_Witness ==
  /\ \E p \in Procs : calls[p].scenario = "merge" /\ calls[p].applied >= 1
  /\ \E i, j \in Ids(contacts) :
       /\ contacts[i].linkPrecedence = "primary"
       /\ contacts[j].linkPrecedence = "secondary" /\ contacts[j].linkedId = i
       /\ contacts[j].updatedAt > contacts[j].createdAt

\* C23: a primary row is no younger than any row whose linkedId is its id.
C23_PrimaryIsOldest ==
  \A p, i \in Ids(contacts) :
    (contacts[p].linkPrecedence = "primary" /\ contacts[i].linkedId = p)
      => contacts[p].createdAt <= contacts[i].createdAt

C23_Witness ==
  /\ Called /\ last.scenario = "merge"
  /\ \E l \in Demoted :
       /\ contacts[contacts[l].linkedId].linkPrecedence = "primary"
       /\ contacts[contacts[l].linkedId].createdAt < contacts[l].createdAt

\* ------------------------------------------------------ what a step changes
\* Every row stays in the store with its id, e-mail, phone number, createdAt
\* and deletedAt; a secondary stays secondary; a row whose link or
\* precedence changes is a secondary with a link afterwards.
RowsKept ==
  \A i \in Ids(contacts) :
    /\ i \in Ids(contacts')
    /\ LET a == contacts[i]
           b == contacts'[i]
       IN /\ b.id = a.id /\ b.email = a.email /\ b.phoneNumber = a.phoneNumber
          /\ b.createdAt = a.createdAt /\ b.deletedAt = a.deletedAt
          /\ (a.linkPrecedence = "secondary" => b.linkPrecedence = "secondary")
          /\ (b.linkedId # a.linkedId \/ b.linkPrecedence # a.linkPrecedence)
               => (b.linkPrecedence = "secondary" /\ b.linkedId # NULL)

\* C24: a step of a call changes a row of the store only by demoting a
\* primary under a link or by re-pointing a secondary; it changes no
\* e-mail, phone number, createdAt or deletedAt, turns no secondary into a
\* primary and removes no row.
C24_OnlyLinksChange == [][RowsKept]_vars

C24_Witness ==
  \E p \in Procs :
    /\ calls[p].pc = "done" /\ calls[p].scenario = "merge"
    /\ calls[p].applied >= 2 /\ calls[p].createdId # NULL
    /\ \E i \in calls[p].primaries : contacts[i].linkPrecedence = "secondary"

\* ------------------------------------------- properties of soft-deleted rows
DeletedIn(cs) == {i \in Ids(cs) : cs[i].deletedAt # NULL}

\* On the store a call in flight read, its exact-match and partial-match
\* queries hand back no soft-deleted row.
LookupsSkipDeleted ==
  \A p \in Procs :
    LET c == calls[p]
    IN c.seen # <<>> =>
         /\ findExactContactMatch(c.seen, c.email, c.phoneNumber) \cap DeletedIn(c.seen) = {}
         /\ \A tb \in TieOrders :
              LET pm == findPartialMatches(c.seen, c.email, c.phoneNumber, tb)
              IN (Range(pm.emailMatches) \cup Range(pm.phoneMatches)) \cap DeletedIn(c.seen) = {}
         /\ c.primaries \cap DeletedIn(c.seen) = {}

\* The answer a call gives in this step names no row that was soft-deleted
\* when the call ran its queries.
AnswerSkipsDeleted ==
  \A p \in Procs :
    (calls[p].seen # <<>> /\ calls'[p].pc = "done" /\ calls'[p].res.status = "ok")
      => ({calls'[p].res.primaryId} \cup Range(calls'[p].res.secondaryIds))
           \cap DeletedIn(calls[p].seen) = {}

C26_FailureEndsCall ==
  [][/\ \A p \in Procs :
          calls'[p].res.error = "store operation failed"
            => calls'[p].pc = "done" /\ calls'[p].pending = <<>>
     /\ \A p \in Procs :
          (Rejected(calls[p]) /\ calls'[p].n = calls[p].n)
            => contacts' = contacts /\ calls'[p] = calls[p]]_vars

C26_Witness ==
  /\ Rejected(calls[1])
  /\ calls[1].scenario = "merge"
  /\ calls[1].applied = 1
  /\ calls[1].createdId = NULL

\* -------------------------------------------- properties of the formatter
\* C27: the response lists the primary's e-mail first among the e-mails and
\* the primary's phone number first among the phone numbers, whenever the
\* primary has one, whatever the order of allEmails and allPhoneNumbers.
C27_PrimaryValuesFirst ==
  response.formatted =>
    LET prim == response.given.primaryContact
    IN /\ prim.email # NULL => response.sent.emails[1] = prim.email
       /\ prim.phoneNumber # NULL => response.sent.phoneNumbers[1] = prim.phoneNumber

\* ------------------------------------------ properties of the answer, II
\* C28: a call that succeeds answers with e-mails that contain the e-mail it
\* was given and phone numbers that contain the phone number it was given.
C28_AnswerContainsRequest ==
  (Called /\ last.res.status = "ok") =>
    /\ last.email # NULL => last.email \in Range(last.res.allEmails)
    /\ last.phoneNumber # NULL => last.phoneNumber \in Range(last.res.allPhoneNumbers)

\* C29: two live rows that share a non-null e-mail or a non-null phone
\* number are in one cluster: one is the primary the other links to, or
\* both link to the same primary.
SameCluster(a, b) ==
  \/ a.linkPrecedence = "primary" /\ b.linkedId = a.id
  \/ b.linkPrecedence = "primary" /\ a.linkedId = b.id
  \/ /\ a.linkedId # NULL
     /\ a.linkedId = b.linkedId
     /\ \E k \in Ids(contacts) : contacts[k].id = a.linkedId /\ contacts[k].linkPrecedence = "primary"

C29_SharedValueSameCluster ==
  \A i, j \in Ids(contacts) :
    LET a == contacts[i]
        b == contacts[j]
    IN (/\ i # j
        /\ a.deletedAt = NULL /\ b.deletedAt = NULL
        /\ \/ a.email # NULL /\ a.email = b.email
           \/ a.phoneNumber # NULL /\ a.phoneNumber = b.phoneNumber)
       => SameCluster(a, b)

\* ------------------------------------------------ properties of repetition
\* C31: a call repeated at once with the input of the call before it
\* writes nothing to the store and returns the primary id that call
\* returned.
C31_RepeatIsIdempotent ==
  (last.repeated.scenario # "none" /\ last.repeated.status = "ok") =>
    /\ contacts = last.pre
    /\ last.res.status = "ok"
    /\ last.res.primaryId = last.repeated.primaryId

C31_Witness ==
  /\ last.repeated.scenario = "merge"
  /\ last.repeated.status = "ok"
  /\ last.repeated.changed
  /\ ~last.repeated.held
  /\ last.scenario = "exact"

\* C32: a call with one field only whose value live rows of a cluster hold
\* adds one secondary with that value and the other field null when no live
\* row holds exactly that pair, and writes nothing when one does.
SingleFieldHeld ==
  /\ Called
  /\ (last.email = NULL) # (last.phoneNumber = NULL)
  /\ HoldersOfEmail(last.pre, last.email) \cup HoldersOfPhone(last.pre, last.phoneNumber) # {}

C32_SingleFieldCreatesOnce ==
  SingleFieldHeld =>
    IF HoldersOfPair(last.pre, last.email, last.phoneNumber) # {}
    THEN contacts = last.pre
    ELSE /\ Created = 1
         /\ KeptRows = last.pre
         /\ NewRow.linkPrecedence = "secondary"
         /\ NewRow.email = last.email
         /\ NewRow.phoneNumber = last.phoneNumber
         /\ NewRow.linkedId \in Ids(last.pre)
         /\ NewRow.deletedAt = NULL

C32_Witness ==
  /\ SingleFieldHeld
  /\ HoldersOfPair(last.pre, last.email, last.phoneNumber) = {}
  /\ Created = 1
  /\ last.phoneNumber # NULL
  /\ \E i \in HoldersOfPhone(last.pre, last.phoneNumber) :
       last.pre[i].linkPrecedence = "secondary"

\* C33: a call adds at most one row to the store, and no call removes a
\* row: the rows the store held before the call are still there, under
\* their ids, after it.
C33_AtMostOneCreate ==
  /\ Created \in {0, 1}
  /\ \A i \in Ids(last.pre) : i \in Ids(contacts) /\ contacts[i].id = last.pre[i].id

C33_Witness ==
  /\ Called
  /\ last.scenario = "merge"
  /\ Demoted # {}
  /\ Len(last.pre) = MaxContacts - 1
  /\ Created = 1

\* ------------------------------------------------------- the rate limiter
RATE_LIMIT_WINDOW_MS == 60000
MAX_REQUESTS_PER_WINDOW == 100
NumClients == 1     \* distinct client addresses
ClockStep == 30000  \* milliseconds by which Date.now() moves between requests
MaxClockSteps == 3  \* steps of the clock in a run
MaxExcess == 2      \* requests of one client beyond the limit in one window

ClientIps == 1..NumClients
UNKNOWN == 0
NodeEnvs == {"test", "production"}

\* req.ip || req.connection.remoteAddress || "unknown"
ClientIp(ip, remoteAddress) ==
  IF ip # NULL THEN ip ELSE IF remoteAddress # NULL THEN remoteAddress ELSE UNKNOWN

\* cleanupExpiredEntries
cleanupExpiredEntries(requestCounts, t) ==
  [k \in {k \in DOMAIN requestCounts : ~(t > requestCounts[k].resetTime)} |-> requestCounts[k]]

\* The entry of clientIp after the request is counted: a new window when
\* there is no entry or its resetTime has passed, else one more in it.
CountRequest(requestCounts, clientIp, t) ==
  IF clientIp \notin DOMAIN requestCounts \/ t > requestCounts[clientIp].resetTime
  THEN [count |-> 1, resetTime |-> t + RATE_LIMIT_WINDOW_MS]
  ELSE [requestCounts[clientIp] EXCEPT !.count = @ + 1]

\* Variant of Limited that lets one request more through.
Limited_OneMore(rateLimitEntry) == rateLimitEntry.count > MAX_REQUESTS_PER_WINDOW + 1

\* rateLimitEntry.count > MAX_REQUESTS_PER_WINDOW
Limited(rateLimitEntry) == rateLimitEntry.count > MAX_REQUESTS_PER_WINDOW

\* The window of key k as the requests define it: the request at t opens a
\* window that ends at t + RATE_LIMIT_WINDOW_MS when k has no window or its
\* window has ended.
WindowAt(windows, k, t) ==
  IF k \notin DOMAIN windows \/ t > windows[k].end
  THEN [end |-> t + RATE_LIMIT_WINDOW_MS, passed |-> 0, rejected |-> 0]
  ELSE windows[k]

\* One request through the rateLimiter middleware.
rateLimiter ==
  \E ip \in {NULL} \cup ClientIps, remoteAddress \in {NULL} \cup ClientIps :
    LET clientIp == ClientIp(ip, remoteAddress)
        t == limiter.clock
        window == WindowAt(limiter.windows, clientIp, t)
        further == window.passed >= MAX_REQUESTS_PER_WINDOW
        cleaned == cleanupExpiredEntries(limiter.requestCounts, t)
        rateLimitEntry == CountRequest(cleaned, clientIp, t)
        skipped == limiter.nodeEnv = "test"
        limited == ~skipped /\ Limited(rateLimitEntry)
    IN /\ window.passed + window.rejected < MAX_REQUESTS_PER_WINDOW + MaxExcess
       /\ limiter' =
            [limiter EXCEPT
               !.requestCounts = IF skipped THEN @ ELSE (clientIp :> rateLimitEntry) @@ cleaned,
               !.windows = (clientIp :> IF limited
                                        THEN [window EXCEPT !.rejected = @ + 1]
                                        ELSE [window EXCEPT !.passed = @ + 1]) @@ @,
               !.answer = [clientIp |-> clientIp,
                           status |-> IF limited THEN "429" ELSE "next",
                           further |-> further]]
       /\ UNCHANGED <<contacts, now, last, calls, response, consolidation, detection>>

\* Date.now() moves on.
advanceClock ==
  /\ limiter.clock < MaxClockSteps * ClockStep
  /\ limiter' = [limiter EXCEPT !.clock = @ + ClockStep]
  /\ UNCHANGED <<contacts, now, last, calls, response, consolidation, detection>>

InitLimiter ==
  /\ contacts = <<>>
  /\ now = 1
  /\ last = NoCall
  /\ calls = [p \in Procs |-> IdleCall]
  /\ response = NoResponse
  /\ \E env \in NodeEnvs : limiter = [NoLimiter EXCEPT !.nodeEnv = env]
  /\ consolidation = NoConsolidation
  /\ detection = NoDetection

NextLimiter == rateLimiter \/ advanceClock

SpecLimiter == InitLimiter /\ [][NextLimiter]_vars

MaxPrimaryContacts == 3   \* length of the list handed to consolidatePrimaryContacts
MaxConsolidations == 1    \* consolidatePrimaryContacts calls in a run

\* ContactRepository.update(id, {linkedId})
update(cs, t, id, linkedId) ==
  [cs EXCEPT ![id] = [@ EXCEPT !.linkedId = linkedId, !.updatedAt = t]]

\* findOldestPrimary: the primaries of the list, sorted by createdAt with
\* the stable sort, the first of them; NULL for none.
findOldestPrimary(cs, list) ==
  LET primaryContacts == FilterSeq(list, {i \in Ids(cs) : cs[i].linkPrecedence = "primary"})
  IN IF Len(primaryContacts) = 0 THEN NULL ELSE sortByCreatedAt(cs, primaryContacts)[1]

\* ContactConsolidationService.shouldCreateNewContact
shouldCreateNewContact(existingContact, newEmail, newPhoneNumber) ==
  IF newEmail = NULL /\ newPhoneNumber = NULL THEN FALSE
  ELSE IF existingContact.email = newEmail /\ existingContact.phoneNumber = newPhoneNumber
  THEN FALSE
  ELSE \/ (newEmail # NULL /\ newEmail # existingContact.email)
       \/ (newPhoneNumber # NULL /\ newPhoneNumber # existingContact.phoneNumber)

\* ContactConsolidationService.buildConsolidatedContact
buildConsolidatedContact(cs, primaryContactId, tb) ==
  LET found == findPrimaryContact(cs, primaryContactId)
  IN IF found = DIVERGE THEN Hang
     ELSE IF found = NULL THEN Err("Primary contact with ID not found")
     ELSE LET primaryContact == cs[found]
              allLinkedContacts == findLinkedContacts(cs, primaryContactId, tb)
              secondaryContacts ==
                sortByCreatedAt(cs, FilterSeq(allLinkedContacts,
                                   {i \in Ids(cs) : cs[i].linkPrecedence = "secondary"}))
              emails0 == IF primaryContact.email # NULL THEN <<primaryContact.email>> ELSE <<>>
              phones0 == IF primaryContact.phoneNumber # NULL THEN <<primaryContact.phoneNumber>> ELSE <<>>
          IN Ok(primaryContact.id, secondaryContacts,
                collect(cs, emails0, secondaryContacts, "email"),
                collect(cs, phones0, secondaryContacts, "phone"))

\* ContactConsolidationService.handleSinglePrimaryConsolidation
handleSinglePrimaryConsolidation(cs, t, primaryContact, newEmail, newPhoneNumber, tb) ==
  LET store == IF shouldCreateNewContact(cs[primaryContact], newEmail, newPhoneNumber)
               THEN create(cs, t, newEmail, newPhoneNumber, primaryContact, "secondary")
               ELSE cs
  IN Outcome(store, buildConsolidatedContact(store, primaryContact, tb), "single")

\* ContactConsolidationService.getAllContactsToRelink: one group per
\* primary of the list other than the one kept, with the secondaries
\* findLinkedContacts returns for it.
getAllContactsToRelink(cs, primaryContacts, keepPrimaryId, tb) ==
  LET others_ == FilterSeq(primaryContacts, Ids(cs) \ {keepPrimaryId})
  IN [k \in 1..Len(others_) |->
        [oldPrimaryContact |-> others_[k],
         secondaryContacts |->
           FilterSeq(findLinkedContacts(cs, others_[k], tb),
                     {i \in Ids(cs) : cs[i].linkPrecedence = "secondary"}),
         newPrimaryId |-> keepPrimaryId]]

RECURSIVE relinkAll(_, _, _, _)
\* The inner loop of relinkContactHierarchies: update(secondary.id, {linkedId})
relinkAll(cs, t, ids, newPrimaryId) ==
  IF ids = <<>> THEN cs
  ELSE relinkAll(update(cs, t, ids[1], newPrimaryId), t, Tail(ids), newPrimaryId)

RECURSIVE relinkContactHierarchies_ConvertOnly(_, _, _, _)
RECURSIVE relinkContactHierarchies(_, _, _, _)
\* Variant of relinkContactHierarchies that converts the old primaries and
\* leaves their secondaries as they are.
relinkContactHierarchies_ConvertOnly(cs, t, relinkingGroups, newPrimaryId) ==
  IF relinkingGroups = <<>> THEN cs
  ELSE relinkContactHierarchies_ConvertOnly(
         convertToSecondary(cs, t, relinkingGroups[1].oldPrimaryContact, newPrimaryId),
         t, Tail(relinkingGroups), newPrimaryId)

\* ContactConsolidationService.relinkContactHierarchies
relinkContactHierarchies(cs, t, relinkingGroups, newPrimaryId) ==
  IF relinkingGroups = <<>> THEN cs
  ELSE relinkContactHierarchies(
         relinkAll(convertToSecondary(cs, t, relinkingGroups[1].oldPrimaryContact, newPrimaryId),
                   t, relinkingGroups[1].secondaryContacts, newPrimaryId),
         t, Tail(relinkingGroups), newPrimaryId)

\* ContactConsolidationService.mergePrimaryContacts
mergePrimaryContacts(cs, t, primaryContacts, newEmail, newPhoneNumber, tb) ==
  LET oldestPrimary == findOldestPrimary(cs, primaryContacts)
  IN IF oldestPrimary = NULL
     THEN Outcome(cs, Err("No valid primary contact found for consolidation"), "mergePrimaries")
     ELSE LET contactsToRelink == getAllContactsToRelink(cs, primaryContacts, oldestPrimary, tb)
              relinked == relinkContactHierarchies(cs, t, contactsToRelink, oldestPrimary)
              store == IF shouldCreateNewContact(cs[oldestPrimary], newEmail, newPhoneNumber)
                       THEN create(relinked, t, newEmail, newPhoneNumber, oldestPrimary, "secondary")
                       ELSE relinked
          IN Outcome(store, buildConsolidatedContact(store, oldestPrimary, tb), "mergePrimaries")

\* ContactConsolidationService.consolidatePrimaryContacts on a list of
\* rows (by id) as the store holds them when the call starts.
consolidatePrimaryContactsOn(cs, t, primaryContacts, newEmail, newPhoneNumber, tb) ==
  IF Len(primaryContacts) = 0
  THEN Outcome(cs, Err("No primary contacts provided for consolidation"), "none")
  ELSE IF Len(primaryContacts) = 1
  THEN handleSinglePrimaryConsolidation(cs, t, primaryContacts[1], newEmail, newPhoneNumber, tb)
  ELSE mergePrimaryContacts(cs, t, primaryContacts, newEmail, newPhoneNumber, tb)

\* The lists a caller may hand in: live primaries of the store, each once,
\* in any order.
PrimaryLists(cs) ==
  LET prim == {i \in Ids(cs) : cs[i].linkPrecedence = "primary" /\ cs[i].deletedAt = NULL}
  IN UNION {{l \in [1..n -> prim] : \A a, b \in 1..n : a # b => l[a] # l[b]} :
              n \in 0..MaxPrimaryContacts}

\* One complete call of consolidatePrimaryContacts.
consolidatePrimaryContacts ==
  /\ consolidation.n < MaxConsolidations
  /\ \E primaryContacts \in PrimaryLists(contacts),
        newEmail \in {validateEmail(raw) : raw \in RequestEmails(contacts)},
        newPhoneNumber \in {validatePhoneNumber(raw) : raw \in RequestPhones(contacts)} :
       \* The order of rows of one createdAt decides the order of the
       \* updates and of the lists in the answer only; the store after the
       \* call and the primary returned are the same for every order.
       LET out == consolidatePrimaryContactsOn(contacts, now, primaryContacts,
                                               newEmail, newPhoneNumber, "asc")
       IN /\ Len(out.store) <= MaxContacts
          /\ contacts' = out.store
          /\ consolidation' = [called |-> TRUE, primaryContacts |-> primaryContacts,
                               newEmail |-> newEmail, newPhoneNumber |-> newPhoneNumber,
                               status |-> out.res.status, primaryId |-> out.res.primaryId,
                               n |-> consolidation.n + 1]
          \* last describes a call only while that call is the latest
          \* writer of the store
          /\ last' = NoCall
  /\ UNCHANGED <<now, calls, response, limiter, detection>>

\* The store is built by identifyContact calls; the consolidation is called
\* on it and ends the run.
NextConsolidate ==
  \/ (consolidation.n = 0 /\ identifyContact)
  \/ consolidatePrimaryContacts
  \/ (consolidation.n = 0 /\ Tick)

SpecConsolidate == Init /\ [][NextConsolidate]_vars

\* --------------------------------------- properties of the consolidation
\* A step that is a consolidatePrimaryContacts call.
Consolidated == consolidation'.n # consolidation.n

\* The primaries of the list other than the one the call returned.
Losers == Range(consolidation'.primaryContacts) \ {consolidation'.primaryId}

\* C35: after a call that merges several primaries, the primary returned is
\* an oldest of the list, every other primary of the list is a secondary
\* linked to it, and every row that was a secondary of one of those is
\* linked to it.
PrimariesMerged ==
  (Consolidated /\ Len(consolidation'.primaryContacts) >= 2) =>
    /\ consolidation'.status = "ok"
    /\ consolidation'.primaryId \in Range(consolidation'.primaryContacts)
    /\ contacts'[consolidation'.primaryId].linkPrecedence = "primary"
    /\ \A x \in Losers :
         /\ contacts[consolidation'.primaryId].createdAt <= contacts[x].createdAt
         /\ contacts'[x].linkPrecedence = "secondary"
         /\ contacts'[x].linkedId = consolidation'.primaryId
    /\ \A i \in Ids(contacts) :
         (contacts[i].linkPrecedence = "secondary" /\ contacts[i].linkedId \in Losers)
           => /\ contacts'[i].linkPrecedence = "secondary"
              /\ contacts'[i].linkedId = consolidation'.primaryId

C35_ConsolidationRelinks == [][PrimariesMerged]_vars

C35_Witness ==
  /\ consolidation.called
  /\ Len(consolidation.primaryContacts) = 3
  /\ consolidation.status = "ok"
  /\ \E i \in Ids(contacts) :
       /\ i \notin Range(consolidation.primaryContacts)
       /\ contacts[i].linkedId = consolidation.primaryId
       /\ contacts[i].updatedAt > contacts[i].createdAt

\* C36: a row the call creates has a pair that no live row of the cluster
\* of the primary returned holds.
NoDuplicateCreated ==
  (Consolidated /\ Len(contacts') > Len(contacts)) =>
    \A i \in Ids(contacts) :
      ( /\ contacts'[i].deletedAt = NULL
        /\ (i = consolidation'.primaryId \/ contacts'[i].linkedId = consolidation'.primaryId) )
      => ~ ( /\ contacts'[i].email = contacts'[Len(contacts')].email
             /\ contacts'[i].phoneNumber = contacts'[Len(contacts')].phoneNumber )

C36_ConsolidationNoDuplicate == [][NoDuplicateCreated]_vars

\* ------------------------------- EdgeCaseHandler.detectCircularReferences
MaxListLen == 3    \* length of the list handed to detectCircularReferences
NumListIds == 3    \* distinct ids among its rows

\* The rows of a list: id, linkedId (NULL or an id) and linkPrecedence; the
\* other columns are not read.  Two rows of a list may carry one id.
ListRows ==
  [id : 1..NumListIds, linkedId : {NULL} \cup (1..NumListIds),
   linkPrecedence : {"primary", "secondary"}]

ContactLists == UNION {[1..n -> ListRows] : n \in 0..MaxListLen}

\* contacts.filter((c) => c.linkedId === contactId), as the ids of the rows
LinkedTo(list, contactId) ==
  LET hits == SelectSeq(list, LAMBDA c : c.linkedId = contactId)
  IN [k \in 1..Len(hits) |-> hits[k].id]

RECURSIVE dfs(_, _, _, _)
RECURSIVE dfsEach(_, _, _, _)
\* The closure dfs of detectCircularReferences; visited is handed back
\* because the Set is shared by all calls.
dfs(list, contactId, visited, recursionStack) ==
  IF contactId \in recursionStack THEN [cycle |-> TRUE, visited |-> visited]
  ELSE IF contactId \in visited THEN [cycle |-> FALSE, visited |-> visited]
  ELSE dfsEach(list, LinkedTo(list, contactId), visited \cup {contactId},
               recursionStack \cup {contactId})

\* for (const linkedContact of linkedContacts) if (dfs(linkedContact.id)) return true
dfsEach(list, ids, visited, recursionStack) ==
  IF ids = <<>> THEN [cycle |-> FALSE, visited |-> visited]
  ELSE LET r == dfs(list, ids[1], visited, recursionStack)
       IN IF r.cycle THEN r ELSE dfsEach(list, Tail(ids), r.visited, recursionStack)

RECURSIVE detectFrom(_, _, _)
\* The loop over the list from row k on: a search starts from each primary;
\* TRUE when BusinessLogicError is thrown.
detectFrom(list, k, visited) ==
  IF k > Len(list) THEN FALSE
  ELSE IF list[k].linkPrecedence = "primary"
  THEN LET r == dfs(list, list[k].id, visited, {})
       IN r.cycle \/ detectFrom(list, k + 1, r.visited)
  ELSE detectFrom(list, k + 1, visited)

\* One call of EdgeCaseHandler.detectCircularReferences.
detectCircularReferences ==
  /\ ~detection.done
  /\ detection' = [detection EXCEPT !.threw = detectFrom(detection.given, 1, {}),
                                    !.done = TRUE]
  /\ UNCHANGED <<contacts, now, last, calls, response, limiter, consolidation>>

InitDetect ==
  /\ contacts = <<>>
  /\ now = 1
  /\ last = NoCall
  /\ calls = [p \in Procs |-> IdleCall]
  /\ response = NoResponse
  /\ limiter = NoLimiter
  /\ consolidation = NoConsolidation
  /\ \E list \in ContactLists : detection = [NoDetection EXCEPT !.given = list]

SpecDetect == InitDetect /\ [][detectCircularReferences]_vars

\* The ids from which a walk along linkedId of at most fuel steps that
\* starts at id x can arrive.
RECURSIVE ReachedFrom(_, _, _)
ReachedFrom(list, S, fuel) ==
  LET step == {list[k].linkedId : k \in {k \in 1..Len(list) : list[k].id \in S}} \ {NULL}
  IN IF fuel = 0 THEN {} ELSE step \cup ReachedFrom(list, step, fuel - 1)

\* The linkedId relation of the list has a cycle: a walk along linkedId
\* comes back to the id it started from.
HasCycle(list) == \E x \in 1..NumListIds : x \in ReachedFrom(list, {x}, NumListIds)

\* C37: detectCircularReferences throws for every list whose linkedId
\* relation has a cycle and for no other list.
C37_DetectsExactlyCycles ==
  detection.done => (detection.threw <=> HasCycle(detection.given))

====
